---- MODULE Spec2Model ----
(***************************************************************************)
(* Model of pycti/connector/opencti_connector_helper.py: the STIX2 bundle  *)
(* splitter of OpenCTIConnectorHelper (split_stix2_bundle and the          *)
(* stix2_get_* collectors), the producer path send_stix2_bundle /          *)
(* _send_bundle, and the consumer ListenQueue.                             *)
(***************************************************************************)
EXTENDS Integers, Sequences, FiniteSets, Bags, TLC

(***************************************************************************)
(* Bounds of the model.                                                    *)
(***************************************************************************)
\* Largest number of objects in a document; ids are 1..MaxObjects, so a
\* shorter document can name ids that are not in its index.
MaxObjects == 3
\* Largest number of messages in the listen queue.
MaxMessages == 2
\* Largest number of connections ListenQueue.run opens: run retries for ever.
MaxConnections == 2
\* Largest number of objects in each document of two concurrent calls.
MaxConcurrentObjects == 2
\* Largest number of optional references in a document: the entries of the
\* object_refs and object_marking_refs lists and the created_by_ref fields.
MaxRefs == 2

\* Python's None, for an id-valued field an object does not carry and for the
\* fields current_work_id and job_id.
None == 0
Ids == 1..MaxObjects
Callers == {1, 2}

VARIABLES
    input,            \* per call: the bundle argument (kind, objects)
    mode,             \* per call: "split" | "send_split" | "send_nosplit"
    pc,               \* per call: position in split_stix2_bundle / send_stix2_bundle
    i,                \* per call: index of the running for loop
    bundles,          \* per call: the local list bundles
    raised,           \* per call: the exception that left the call, or None
    cache_index,      \* self.cache_index (instance field, shared by the calls)
    cache_added,      \* self.cache_added (instance field, shared by the calls)
    current_work_id,  \* self.current_work_id
    jobs,             \* the work ids api.job.initiate_job was called with
    published,        \* the messages accepted by channel.basic_publish
    messages,         \* the broker's listen queue: payload and state of each message
    lq,               \* position of the ListenQueue thread in run / _process_message
    delivery,         \* the delivery _process_message is handling
    threads,          \* the worker threads started by _process_message, in order
    updates,          \* the calls of api.job.update_job
    acks,             \* the deliveries channel.basic_ack was called for
    connections,      \* how many times run has connected
    connector_state,  \* self.connector_state: None or a text
    in_error,         \* PingAlive.in_error
    ping_pc,          \* position of the PingAlive thread in ping
    initial_state,    \* ping's local initial_state
    result,           \* ping's local result["connector_state"]
    remote_state,     \* ping's local remote_state
    failed            \* whether an exception was raised in the running tick

consumer_vars == <<messages, lq, delivery, threads, updates, acks, connections>>

ping_vars == <<connector_state, in_error, ping_pc, initial_state, result,
               remote_state, failed>>

vars == <<input, mode, pc, i, bundles, raised, cache_index, cache_added,
          current_work_id, jobs, published, consumer_vars, ping_vars>>

(***************************************************************************)
(* Objects of a document.  A field an object does not carry is None (the   *)
(* code tests `in item` for the embedded refs); object_refs is read for    *)
(* reports only, source_ref and target_ref for relationships only.         *)
(***************************************************************************)
RECURSIVE SeqsUpTo(_, _)
SeqsUpTo(S, n) ==
    IF n = 0 THEN {<<>>}
    ELSE LET shorter == SeqsUpTo(S, n - 1)
         IN  shorter \cup {Append(s, x) : s \in {t \in shorter : Len(t) = n - 1}, x \in S}

Entity(id, cb, mk) ==
    [id |-> id, type |-> "indicator", object_refs |-> <<>>, source_ref |-> None,
     target_ref |-> None, created_by_ref |-> cb, object_marking_refs |-> mk]
Relationship(id, src, tgt, cb, mk) ==
    [id |-> id, type |-> "relationship", object_refs |-> <<>>, source_ref |-> src,
     target_ref |-> tgt, created_by_ref |-> cb, object_marking_refs |-> mk]
Report(id, refs, cb, mk) ==
    [id |-> id, type |-> "report", object_refs |-> refs, source_ref |-> None,
     target_ref |-> None, created_by_ref |-> cb, object_marking_refs |-> mk]

(***************************************************************************)
(* The collectors (DependencyCollector).  idx is self.cache_index: a       *)
(* function from the indexed ids to their objects.                         *)
(***************************************************************************)
\* [idx[r] for r in refs if r in idx]
IndexedObjects(idx, refs) ==
    LET present == SelectSeq(refs, LAMBDA r : r \in DOMAIN idx)
    IN  [k \in 1..Len(present) |-> idx[present[k]]]

\* created_by_ref is a sequence of zero or one object (None or the object).
stix2_get_embedded_objects(idx, item) ==
    [object_marking_refs |-> IndexedObjects(idx, item.object_marking_refs),
     created_by_ref |->
        IF item.created_by_ref # None /\ item.created_by_ref \in DOMAIN idx
        THEN <<idx[item.created_by_ref]>> ELSE <<>>]

stix2_get_entity_objects(idx, entity) ==
    LET embedded_objects == stix2_get_embedded_objects(idx, entity)
    IN  <<entity>> \o embedded_objects.created_by_ref
                  \o embedded_objects.object_marking_refs

\* Mutant: the target is collected before the source.
relationship_objects_target_first(idx, relationship) ==
    LET embedded_objects == stix2_get_embedded_objects(idx, relationship)
    IN  <<relationship>>
        \o IndexedObjects(idx, <<relationship.target_ref>>)
        \o IndexedObjects(idx, <<relationship.source_ref>>)
        \o embedded_objects.created_by_ref
        \o embedded_objects.object_marking_refs

stix2_get_relationship_objects(idx, relationship) ==
    LET embedded_objects == stix2_get_embedded_objects(idx, relationship)
    IN  <<relationship>>
        \o IndexedObjects(idx, <<relationship.source_ref>>)
        \o IndexedObjects(idx, <<relationship.target_ref>>)
        \o embedded_objects.created_by_ref
        \o embedded_objects.object_marking_refs

\* The loop `for item in items` of stix2_get_report_objects runs over the list
\* built before it (the report and its members): the expansions are appended
\* to a new list and are not expanded themselves.
RECURSIVE ExpandMembers(_, _, _)
ExpandMembers(idx, items, k) ==
    IF k > Len(items) THEN <<>>
    ELSE (IF items[k].type = "relationship"
          THEN stix2_get_relationship_objects(idx, items[k])
          ELSE stix2_get_entity_objects(idx, items[k]))
         \o ExpandMembers(idx, items, k + 1)

\* self.cache_index[object_ref] raises KeyError for an id that is not indexed.
ReportLookupFails(idx, report) ==
    \E k \in 1..Len(report.object_refs) : report.object_refs[k] \notin DOMAIN idx

stix2_get_report_objects(idx, report) ==
    LET items == <<report>>
                 \o [k \in 1..Len(report.object_refs) |-> idx[report.object_refs[k]]]
    IN  items \o ExpandMembers(idx, items, 1)

RECURSIVE DedupFrom(_, _, _, _)
DedupFrom(items, k, ids, final_items) ==
    IF k > Len(items) THEN final_items
    ELSE IF items[k].id \notin ids
         THEN DedupFrom(items, k + 1, ids \cup {items[k].id}, Append(final_items, items[k]))
         ELSE DedupFrom(items, k + 1, ids, final_items)

\* Mutant: the ids seen are not recorded, so nothing is dropped.
deduplicate_without_ids(items) == items

stix2_deduplicate_objects(items) == DedupFrom(items, 1, {}, <<>>)

\* json.dumps of the bundle object; the random bundle id is left out.
stix2_create_bundle(items) == [type |-> "bundle", objects |-> items]

\* The ids of a list of objects, in order.
IdsOf(items) == [k \in 1..Len(items) |-> items[k].id]

(***************************************************************************)
(* split_stix2_bundle, one step per loop iteration.  c is the call.        *)
(***************************************************************************)
Raise(c, e) ==
    /\ pc' = [pc EXCEPT ![c] = "raised"]
    /\ raised' = [raised EXCEPT ![c] = e]

\* Mutant: the bundle is appended but its ids are not marked as added.
EmitWithoutMarking(c, items_to_send) ==
    /\ cache_added' = cache_added
    /\ bundles' = [bundles EXCEPT ![c] = Append(@, stix2_create_bundle(items_to_send))]

\* items_to_send were collected for one root: lines 421-423 (and 431-433,
\* 441-443) mark them as added and append their bundle.
Emit(c, items_to_send) ==
    /\ cache_added' = cache_added \o IdsOf(items_to_send)
    /\ bundles' = [bundles EXCEPT ![c] = Append(@, stix2_create_bundle(items_to_send))]

\* The call is entered.  split_stix2_bundle resets the two instance fields and
\* parses the text; send_stix2_bundle with split=False goes to its publish.
Call(c) ==
    /\ pc[c] = "call"
    /\ IF mode[c] = "send_nosplit"
       THEN /\ pc' = [pc EXCEPT ![c] = "publish_raw"]
            /\ UNCHANGED <<cache_index, cache_added, raised>>
       ELSE /\ cache_index' = <<>>
            /\ cache_added' = <<>>
            /\ IF input[c].kind = "invalid_json"
               THEN Raise(c, "Exception: File data is not a valid JSON")
               ELSE /\ pc' = [pc EXCEPT ![c] = "index"]
                    /\ UNCHANGED raised
    /\ UNCHANGED <<input, mode, i, bundles, current_work_id, jobs, published>>
    /\ UNCHANGED <<consumer_vars, ping_vars>>

\* for item in bundle_data["objects"]: self.cache_index[item["id"]] = item
IndexObjects(c) ==
    /\ pc[c] = "index"
    /\ IF input[c].kind = "no_objects"
       THEN /\ Raise(c, "KeyError")
            /\ UNCHANGED <<i, cache_index>>
       ELSE IF i[c] > Len(input[c].objects)
       THEN /\ pc' = [pc EXCEPT ![c] = "reports"]
            /\ i' = [i EXCEPT ![c] = 1]
            /\ UNCHANGED <<raised, cache_index>>
       ELSE LET item == input[c].objects[i[c]]
            IN  /\ cache_index' = [k \in DOMAIN cache_index \cup {item.id} |->
                                      IF k = item.id THEN item ELSE cache_index[k]]
                /\ i' = [i EXCEPT ![c] = @ + 1]
                /\ UNCHANGED <<pc, raised>>
    /\ UNCHANGED <<input, mode, bundles, cache_added, current_work_id, jobs, published>>
    /\ UNCHANGED <<consumer_vars, ping_vars>>

\* A report that names an id that is not indexed is passed over.
SplitReportsSkipping(c) ==
    /\ pc[c] = "reports"
    /\ IF i[c] > Len(input[c].objects)
       THEN /\ pc' = [pc EXCEPT ![c] = "relationships"]
            /\ i' = [i EXCEPT ![c] = 1]
            /\ UNCHANGED <<bundles, cache_added>>
       ELSE LET item == input[c].objects[i[c]]
            IN  /\ IF item.type = "report" /\ ~ReportLookupFails(cache_index, item)
                   THEN Emit(c, stix2_deduplicate_objects(
                                   stix2_get_report_objects(cache_index, item)))
                   ELSE UNCHANGED <<bundles, cache_added>>
                /\ i' = [i EXCEPT ![c] = @ + 1]
                /\ UNCHANGED pc
    /\ UNCHANGED <<input, mode, raised, cache_index, current_work_id, jobs, published>>
    /\ UNCHANGED <<consumer_vars, ping_vars>>

\* Reports must be handled because of object_refs
SplitReports(c) ==
    /\ pc[c] = "reports"
    /\ IF i[c] > Len(input[c].objects)
       THEN /\ pc' = [pc EXCEPT ![c] = "relationships"]
            /\ i' = [i EXCEPT ![c] = 1]
            /\ UNCHANGED <<raised, bundles, cache_added>>
       ELSE LET item == input[c].objects[i[c]]
            IN  IF item.type = "report"
                THEN IF ReportLookupFails(cache_index, item)
                     THEN /\ Raise(c, "KeyError")
                          /\ UNCHANGED <<i, bundles, cache_added>>
                     ELSE /\ Emit(c, stix2_deduplicate_objects(
                                        stix2_get_report_objects(cache_index, item)))
                          /\ i' = [i EXCEPT ![c] = @ + 1]
                          /\ UNCHANGED <<pc, raised>>
                ELSE /\ i' = [i EXCEPT ![c] = @ + 1]
                     /\ UNCHANGED <<pc, raised, bundles, cache_added>>
    /\ UNCHANGED <<input, mode, cache_index, current_work_id, jobs, published>>
    /\ UNCHANGED <<consumer_vars, ping_vars>>

\* Mutant: the roots are looked up in self.cache_index instead of
\* self.cache_added.
AddedOrIndexed == DOMAIN cache_index

\* self.cache_added is a list; `not in` reads its elements.
Added == {cache_added[k] : k \in 1..Len(cache_added)}

\* Relationships not added in previous reports
SplitRelationships(c) ==
    /\ pc[c] = "relationships"
    /\ IF i[c] > Len(input[c].objects)
       THEN /\ pc' = [pc EXCEPT ![c] = "entities"]
            /\ i' = [i EXCEPT ![c] = 1]
            /\ UNCHANGED <<bundles, cache_added>>
       ELSE LET item == input[c].objects[i[c]]
            IN  /\ IF item.type = "relationship" /\ item.id \notin Added
                   THEN Emit(c, stix2_deduplicate_objects(
                                  stix2_get_relationship_objects(cache_index, item)))
                   ELSE UNCHANGED <<bundles, cache_added>>
                /\ i' = [i EXCEPT ![c] = @ + 1]
                /\ UNCHANGED pc
    /\ UNCHANGED <<input, mode, raised, cache_index, current_work_id, jobs, published>>
    /\ UNCHANGED <<consumer_vars, ping_vars>>

\* Entities not added in previous reports and relationships; at the end of
\* the loop split_stix2_bundle returns bundles.
SplitEntities(c) ==
    /\ pc[c] = "entities"
    /\ IF i[c] > Len(input[c].objects)
       THEN /\ pc' = [pc EXCEPT ![c] = IF mode[c] = "split" THEN "returned" ELSE "send_check"]
            /\ i' = [i EXCEPT ![c] = 1]
            /\ UNCHANGED <<bundles, cache_added>>
       ELSE LET item == input[c].objects[i[c]]
            IN  /\ IF item.type # "relationship" /\ item.id \notin Added
                   THEN Emit(c, stix2_deduplicate_objects(
                                  stix2_get_entity_objects(cache_index, item)))
                   ELSE UNCHANGED <<bundles, cache_added>>
                /\ i' = [i EXCEPT ![c] = @ + 1]
                /\ UNCHANGED pc
    /\ UNCHANGED <<input, mode, raised, cache_index, current_work_id, jobs, published>>
    /\ UNCHANGED <<consumer_vars, ping_vars>>

(***************************************************************************)
(* send_stix2_bundle and _send_bundle.                                     *)
(***************************************************************************)
\* base64.b64encode(bundle.encode("utf-8")).decode("utf-8")
b64encode(bundle) == [base64 |-> bundle]

\* Mutant: an empty list of bundles is not refused.
SendCheckWithoutRaise(c) ==
    /\ pc[c] = "send_check"
    /\ pc' = [pc EXCEPT ![c] = "publish"]
    /\ UNCHANGED <<input, mode, i, bundles, raised, cache_index, cache_added,
                   current_work_id, jobs, published>>
    /\ UNCHANGED <<consumer_vars, ping_vars>>

\* if len(bundles) == 0: raise ValueError("Nothing to import"); otherwise the
\* connection and the channel are opened and the loop over bundles starts.
SendCheck(c) ==
    /\ pc[c] = "send_check"
    /\ IF Len(bundles[c]) = 0
       THEN Raise(c, "ValueError: Nothing to import")
       ELSE /\ pc' = [pc EXCEPT ![c] = "publish"]
            /\ UNCHANGED raised
    /\ UNCHANGED <<input, mode, i, bundles, cache_index, cache_added,
                   current_work_id, jobs, published>>
    /\ UNCHANGED <<consumer_vars, ping_vars>>

\* The outcomes of channel.basic_publish.
PublishOutcomes == {"ok", "UnroutableError", "NackError", "AMQPError"}

\* _send_bundle(channel, bundle, entities_types, update).  On UnroutableError
\* or NackError line 387 calls self._send_bundle(bundle, entities_types): the
\* callee takes the text as its channel and the list entities_types as its
\* bundle, creates its job expectation and fails on bundle.encode, a list
\* having no encode.  Any other error of basic_publish leaves the call as is.
\* after is the position of the caller once the bundle is sent.
_send_bundle(c, bundle, outcome, after) ==
    LET job1 == IF current_work_id # None THEN <<current_work_id>> ELSE <<>>
        job_id == IF current_work_id # None THEN Len(jobs) + 1 ELSE None
        message == [job_id |-> job_id, content |-> b64encode(bundle)]
    IN  CASE outcome = "ok" ->
                /\ published' = Append(published, message)
                /\ jobs' = jobs \o job1
                /\ pc' = [pc EXCEPT ![c] = after]
                /\ UNCHANGED raised
          [] outcome \in {"UnroutableError", "NackError"} ->
                /\ jobs' = jobs \o job1 \o job1
                /\ Raise(c, "AttributeError")
                /\ UNCHANGED published
          [] OTHER ->
                /\ jobs' = jobs \o job1
                /\ Raise(c, outcome)
                /\ UNCHANGED published

\* for bundle in bundles: self._send_bundle(channel, bundle, ...); then
\* channel.close() and return bundles.
SendBundles(c) ==
    /\ pc[c] = "publish"
    /\ IF i[c] > Len(bundles[c])
       THEN /\ pc' = [pc EXCEPT ![c] = "returned"]
            /\ UNCHANGED <<i, raised, jobs, published>>
       ELSE /\ \E outcome \in PublishOutcomes :
                 _send_bundle(c, bundles[c][i[c]], outcome, "publish")
            /\ i' = [i EXCEPT ![c] = @ + 1]
    /\ UNCHANGED <<input, mode, bundles, cache_index, cache_added, current_work_id>>
    /\ UNCHANGED <<consumer_vars, ping_vars>>

\* split=False: the bundle is sent as it is and [bundle] is returned.
SendUnsplit(c) ==
    /\ pc[c] = "publish_raw"
    /\ \E outcome \in PublishOutcomes :
          _send_bundle(c, input[c], outcome, "returned")
    /\ bundles' = [bundles EXCEPT ![c] = IF pc'[c] = "returned" THEN <<input[c]>> ELSE @]
    /\ UNCHANGED <<input, mode, i, cache_index, cache_added, current_work_id>>
    /\ UNCHANGED <<consumer_vars, ping_vars>>

(***************************************************************************)
(* The connector state and its JSON texts.  A value is a Python value:    *)
(* base says what it is, depth how many times json.dumps was applied to    *)
(* it, so that depth 0 is the value itself and depth 1 its JSON text.      *)
(***************************************************************************)
\* None, the dicts {"a": 1} and {"a": 2}, the text "" and a text that is no
\* JSON.
StateBases == {"none", "a1", "a2", "empty", "garbage"}
Value(base, depth) == [base |-> base, depth |-> depth]
NoState == Value("none", 0)
EmptyText == Value("empty", 0)
Garbage == Value("garbage", 0)
Dicts == {Value("a1", 0), Value("a2", 0)}

\* isinstance(v, str)
IsStr(v) == v.depth >= 1 \/ v.base \in {"empty", "garbage"}

\* json.dumps(v)
dumps(v) == [v EXCEPT !.depth = @ + 1]

\* json.loads(v) raises: TypeError for what is no text, JSONDecodeError for
\* a text that is no JSON.
LoadsRaises(v) == v.depth = 0

\* json.loads(v) for a JSON text.
loads(v) == [v EXCEPT !.depth = @ - 1]

\* set_state(state), line 244.
set_state(state) == connector_state' = dumps(state)

\* get_state(), lines 253-260, of a value of self.connector_state.
get_state(state) ==
    IF state = NoState THEN NoState
    ELSE IF LoadsRaises(state) THEN NoState
    ELSE loads(state)

\* The PingAlive thread has not run, and the state is the one of registration.
PingNotStarted ==
    /\ connector_state = NoState
    /\ in_error = FALSE
    /\ ping_pc = "get_state"
    /\ initial_state = NoState
    /\ result = NoState
    /\ remote_state = NoState
    /\ failed = FALSE

(***************************************************************************)
(* The documents a call is given.                                          *)
(***************************************************************************)
\* The optional references of an object: the entries of object_refs and of
\* object_marking_refs, and created_by_ref.
RefCount(shape) ==
    Len(shape.object_refs) + Len(shape.object_marking_refs)
    + (IF shape.created_by_ref # None THEN 1 ELSE 0)

\* The objects, without their id, that carry exactly n optional references.
Shapes(n) ==
    LET cbs == {None} \cup Ids
        seqs == SeqsUpTo(Ids, n)
        all == {Entity(None, cb, mk) : cb \in cbs, mk \in seqs}
               \cup {Relationship(None, src, tgt, cb, mk) :
                        src \in Ids, tgt \in Ids, cb \in cbs, mk \in seqs}
               \cup {Report(None, refs, cb, mk) : refs \in seqs, cb \in cbs, mk \in seqs}
    IN  {shape \in all : RefCount(shape) = n}

ShapeTable == [n \in 0..MaxRefs |-> Shapes(n)]

\* The bundle argument of call 1 is text that is no JSON, a JSON object without
\* the key "objects", or a document: d extended by any objects that carry at
\* most b optional references in all.  The object at position k has id k: the
\* ids of a document are unique.
RECURSIVE InitDocument(_, _)
InitDocument(d, b) ==
    \/ input = [c \in Callers |-> [kind |-> "ok", objects |-> IF c = 1 THEN d ELSE <<>>]]
    \/ /\ Len(d) < MaxObjects
       /\ \E n \in 0..b : \E shape \in ShapeTable[n] :
             InitDocument(Append(d, [shape EXCEPT !.id = Len(d) + 1]), b - n)

InitInput(b) ==
    \/ \E kind \in {"invalid_json", "no_objects"} :
          input = [c \in Callers |-> [kind |-> IF c = 1 THEN kind ELSE "ok", objects |-> <<>>]]
    \/ InitDocument(<<>>, b)

Modes == {"split", "send_split", "send_nosplit"}

\* listen() was not called: there is no ListenQueue.
ConsumerNotStarted ==
    /\ messages = <<>>
    /\ lq = "not_started"
    /\ delivery = None
    /\ threads = <<>>
    /\ updates = EmptyBag
    /\ acks = <<>>
    /\ connections = 0

\* Call 1 is made in mode m on a fresh helper (__init__ leaves
\* the two caches empty); call 2 is not made.
InitCall(b, m) ==
    /\ InitInput(b)
    /\ mode = [c \in Callers |-> IF c = 1 THEN m ELSE "split"]
    /\ pc = [c \in Callers |-> IF c = 1 THEN "call" ELSE "idle"]
    /\ i = [c \in Callers |-> 1]
    /\ bundles = [c \in Callers |-> <<>>]
    /\ raised = [c \in Callers |-> "None"]
    /\ cache_index = <<>>
    /\ cache_added = <<>>
    /\ current_work_id = None
    /\ jobs = <<>>
    /\ published = <<>>
    /\ ConsumerNotStarted
    /\ PingNotStarted

(***************************************************************************)
(* Spec: one call of split_stix2_bundle on any input.                      *)
(***************************************************************************)
Init == InitCall(MaxRefs, "split")

Next ==
    \E c \in Callers :
        \/ Call(c)
        \/ IndexObjects(c)
        \/ SplitReports(c)
        \/ SplitRelationships(c)
        \/ SplitEntities(c)

Spec == Init /\ [][Next]_vars

(***************************************************************************)
(* SpecConcurrent: two calls of split_stix2_bundle on the same helper,     *)
(* from two threads, each on its own document.                             *)
(***************************************************************************)
\* The objects, without their id, of the documents of the two calls: they
\* carry no optional reference, and a relationship joins ids a document of
\* MaxConcurrentObjects objects has.
ConcurrentShapes ==
    {shape \in ShapeTable[0] :
        shape.type = "relationship" =>
            /\ shape.source_ref <= MaxConcurrentObjects
            /\ shape.target_ref <= MaxConcurrentObjects}

\* The documents of the two calls, the object at position k of either
\* document having id k.
RECURSIVE InitDocuments(_, _)
InitDocuments(d1, d2) ==
    \/ input = [c \in Callers |-> [kind |-> "ok", objects |-> IF c = 1 THEN d1 ELSE d2]]
    \/ /\ d2 = <<>>
       /\ Len(d1) < MaxConcurrentObjects
       /\ \E shape \in ConcurrentShapes :
             InitDocuments(Append(d1, [shape EXCEPT !.id = Len(d1) + 1]), d2)
    \/ /\ Len(d2) < MaxConcurrentObjects
       /\ \E shape \in ConcurrentShapes :
             InitDocuments(d1, Append(d2, [shape EXCEPT !.id = Len(d2) + 1]))

InitConcurrent ==
    /\ InitDocuments(<<>>, <<>>)
    /\ mode = [c \in Callers |-> "split"]
    /\ pc = [c \in Callers |-> "call"]
    /\ i = [c \in Callers |-> 1]
    /\ bundles = [c \in Callers |-> <<>>]
    /\ raised = [c \in Callers |-> "None"]
    /\ cache_index = <<>>
    /\ cache_added = <<>>
    /\ current_work_id = None
    /\ jobs = <<>>
    /\ published = <<>>
    /\ ConsumerNotStarted
    /\ PingNotStarted

SpecConcurrent == InitConcurrent /\ [][Next]_vars

(***************************************************************************)
(* SpecSend: one call of split_stix2_bundle or of send_stix2_bundle, with  *)
(* split or without.                                                       *)
(***************************************************************************)
InitSend == \E m \in Modes : InitCall(MaxRefs - 1, m)

NextSend ==
    \E c \in Callers :
        \/ Call(c)
        \/ IndexObjects(c)
        \/ SplitReports(c)
        \/ SplitRelationships(c)
        \/ SplitEntities(c)
        \/ SendCheck(c)
        \/ SendBundles(c)
        \/ SendUnsplit(c)

SpecSend == InitSend /\ [][NextSend]_vars

(***************************************************************************)
(* ListenQueue: run, _process_message and, on a worker thread per          *)
(* delivery, _data_handler.                                                *)
(***************************************************************************)
\* The bodies of the messages: a JSON object with work_id, a JSON object
\* without it, JSON that is no container (null, a number), and text that is
\* no JSON.
Payloads == {"object", "no_work_id", "scalar", "invalid"}

Alive(t) == threads[t].at \notin {"done", "died"}

\* The connection of the consumer is gone: the broker puts the messages that
\* were delivered and not acknowledged back on the queue.
Requeue(msgs) ==
    [m \in DOMAIN msgs |->
        IF msgs[m].state = "unacked" THEN [msgs[m] EXCEPT !.state = "ready"] ELSE msgs[m]]

\* An exception leaves start_consuming and run catches it (line 124).
ConsumerFault ==
    /\ lq' = "backoff"
    /\ delivery' = None

\* run, lines 113-120: connect, open the channel, subscribe, start consuming.
Connect ==
    /\ lq = "connect"
    /\ connections < MaxConnections
    /\ connections' = connections + 1
    /\ \E ok \in BOOLEAN : lq' = IF ok THEN "consuming" ELSE "backoff"
    /\ UNCHANGED <<messages, delivery, threads, updates, acks>>
    /\ UNCHANGED <<input, mode, pc, i, bundles, raised, cache_index, cache_added,
                   current_work_id, jobs, published, ping_vars>>

\* run, lines 124-126: the error is logged, time.sleep(10), and the loop
\* connects again.
Backoff ==
    /\ lq = "backoff"
    /\ lq' = "connect"
    /\ UNCHANGED <<messages, delivery, threads, updates, acks, connections>>
    /\ UNCHANGED <<input, mode, pc, i, bundles, raised, cache_index, cache_added,
                   current_work_id, jobs, published, ping_vars>>

\* _process_message, lines 82-84: the broker delivers the first ready message;
\* json.loads raises on text that is no JSON, otherwise the worker thread is
\* created and started.
ProcessMessage ==
    /\ lq = "consuming"
    /\ \E m \in DOMAIN messages :
          /\ messages[m].state = "ready"
          /\ \A n \in 1..(m - 1) : messages[n].state # "ready"
          /\ IF messages[m].payload = "invalid"
             THEN /\ ConsumerFault
                  /\ messages' = [messages EXCEPT ![m].received = @ + 1]
                  /\ UNCHANGED threads
             ELSE /\ messages' = [messages EXCEPT ![m].state = "unacked",
                                                  ![m].received = @ + 1]
                  /\ threads' = Append(threads, [msg |-> m, at |-> "start",
                                              callback |-> "not_called",
                                              signalled |-> FALSE])
                  /\ delivery' = m
                  /\ lq' = "waiting"
    /\ UNCHANGED <<updates, acks, connections>>
    /\ UNCHANGED <<input, mode, pc, i, bundles, raised, cache_index, cache_added,
                   current_work_id, jobs, published, ping_vars>>

\* _process_message, lines 85-86: while the thread is alive the consumer
\* sleeps on the connection; the sleep raises when the connection is lost.
ConnectionLost ==
    /\ lq = "waiting"
    /\ Alive(Len(threads))
    /\ ConsumerFault
    /\ messages' = Requeue(messages)
    /\ UNCHANGED <<threads, updates, acks, connections>>
    /\ UNCHANGED <<input, mode, pc, i, bundles, raised, cache_index, cache_added,
                   current_work_id, jobs, published, ping_vars>>

\* Acknowledging only what the handler completed.
AcknowledgeCompleted ==
    /\ lq = "waiting"
    /\ ~Alive(Len(threads))
    /\ BagIn([thread |-> Len(threads), status |-> "complete", ok |-> TRUE], updates)
    /\ acks' = Append(acks, [msg |-> delivery, thread |-> Len(threads)])
    /\ messages' = [messages EXCEPT ![delivery].state = "acked"]
    /\ lq' = "consuming"
    /\ delivery' = None
    /\ UNCHANGED <<threads, updates, connections>>
    /\ UNCHANGED <<input, mode, pc, i, bundles, raised, cache_index, cache_added,
                   current_work_id, jobs, published, ping_vars>>

\* _process_message, lines 87-92: the thread is not alive any more and the
\* delivery is acknowledged; basic_ack raises when the channel is closed.
Acknowledge ==
    /\ lq = "waiting"
    /\ ~Alive(Len(threads))
    /\ \E ok \in BOOLEAN :
          IF ok
          THEN /\ acks' = Append(acks, [msg |-> delivery, thread |-> Len(threads)])
               /\ messages' = [messages EXCEPT ![delivery].state = "acked"]
               /\ lq' = "consuming"
               /\ delivery' = None
          ELSE /\ ConsumerFault
               /\ messages' = Requeue(messages)
               /\ UNCHANGED acks
    /\ UNCHANGED <<threads, updates, connections>>
    /\ UNCHANGED <<input, mode, pc, i, bundles, raised, cache_index, cache_added,
                   current_work_id, jobs, published, ping_vars>>

\* run, lines 121-123: KeyboardInterrupt or SystemExit is raised in the
\* consumer thread; "Connector stop" is logged and exit(0) ends the thread.
\* Raised during time.sleep(10) of line 126 it is caught by nothing and ends
\* the thread as well.  The worker threads are other threads and run on; the
\* ones alive at that moment are marked.
Interrupt ==
    /\ lq \in {"connect", "consuming", "waiting", "backoff"}
    /\ lq' = "stopped"
    /\ delivery' = None
    /\ messages' = Requeue(messages)
    /\ threads' = [t \in DOMAIN threads |->
                      [threads[t] EXCEPT !.signalled = Alive(t)]]
    /\ UNCHANGED <<updates, acks, connections>>
    /\ UNCHANGED <<input, mode, pc, i, bundles, raised, cache_index, cache_added,
                   current_work_id, jobs, published, ping_vars>>

\* A step of worker thread t: only the thread and what is named change.
HandlerStep(t, at) ==
    /\ threads' = [threads EXCEPT ![t].at = at]
    /\ UNCHANGED <<messages, lq, delivery, acks, connections>>
    /\ UNCHANGED <<input, mode, pc, i, bundles, raised, cache_index, cache_added,
                   jobs, published, ping_vars>>

update_job(t, status, ok) ==
    updates' = updates (+) SetToBag({[thread |-> t, status |-> status, ok |-> ok]})

\* _data_handler, line 95, before the try: `"job_id" in json_data` raises
\* TypeError for JSON that is no container, and the thread ends on it.
HandlerJobId(t) ==
    /\ threads[t].at = "start"
    /\ HandlerStep(t, IF messages[threads[t].msg].payload = "scalar" THEN "died" ELSE "work_id")
    /\ UNCHANGED <<updates, current_work_id>>

\* lines 97-98: json_data["work_id"] raises KeyError, caught at line 102.
HandlerWorkId(t) ==
    /\ threads[t].at = "work_id"
    /\ IF messages[threads[t].msg].payload = "object"
       THEN /\ current_work_id' = threads[t].msg
            /\ HandlerStep(t, "progress")
       ELSE /\ HandlerStep(t, "error")
            /\ UNCHANGED current_work_id
    /\ UNCHANGED updates

\* line 99: update_job(job_id, "progress", ...), which can raise.
HandlerProgress(t) ==
    /\ threads[t].at = "progress"
    /\ \E ok \in BOOLEAN :
          /\ update_job(t, "progress", ok)
          /\ HandlerStep(t, IF ok THEN "callback" ELSE "error")
    /\ UNCHANGED current_work_id

\* A callback whose exception is not noticed.
HandlerCallbackUnnoticed(t) ==
    /\ threads[t].at = "callback"
    /\ \E returns \in BOOLEAN :
          threads' = [threads EXCEPT ![t].at = "complete",
                                     ![t].callback = IF returns THEN "returned" ELSE "raised"]
    /\ UNCHANGED <<messages, lq, delivery, acks, connections, updates, current_work_id>>
    /\ UNCHANGED <<input, mode, pc, i, bundles, raised, cache_index, cache_added,
                   jobs, published, ping_vars>>

\* line 100: the callback returns its messages or raises an Exception.
HandlerCallback(t) ==
    /\ threads[t].at = "callback"
    /\ \E returns \in BOOLEAN :
          threads' = [threads EXCEPT ![t].at = IF returns THEN "complete" ELSE "error",
                                     ![t].callback = IF returns THEN "returned" ELSE "raised"]
    /\ UNCHANGED <<messages, lq, delivery, acks, connections, updates, current_work_id>>
    /\ UNCHANGED <<input, mode, pc, i, bundles, raised, cache_index, cache_added,
                   jobs, published, ping_vars>>

\* line 101: update_job(job_id, "complete", messages), which can raise.
HandlerComplete(t) ==
    /\ threads[t].at = "complete"
    /\ \E ok \in BOOLEAN :
          /\ update_job(t, "complete", ok)
          /\ HandlerStep(t, IF ok THEN "done" ELSE "error")
    /\ UNCHANGED current_work_id

\* lines 102-107: the error is reported; a failure to report it is swallowed.
HandlerError(t) ==
    /\ threads[t].at = "error"
    /\ \E ok \in BOOLEAN : update_job(t, "error", ok)
    /\ HandlerStep(t, "done")
    /\ UNCHANGED current_work_id

(***************************************************************************)
(* SpecConsumer: listen() on a queue of up to MaxMessages messages.        *)
(***************************************************************************)
InitConsumer ==
    /\ \E n \in 0..MaxMessages : \E payloads \in [1..n -> Payloads] :
          messages = [m \in 1..n |->
                         [payload |-> payloads[m], state |-> "ready", received |-> 0]]
    /\ lq = "connect"
    /\ delivery = None
    /\ threads = <<>>
    /\ updates = EmptyBag
    /\ acks = <<>>
    /\ connections = 0
    /\ PingNotStarted
    /\ input = [c \in Callers |-> [kind |-> "ok", objects |-> <<>>]]
    /\ mode = [c \in Callers |-> "split"]
    /\ pc = [c \in Callers |-> "idle"]
    /\ i = [c \in Callers |-> 1]
    /\ bundles = [c \in Callers |-> <<>>]
    /\ raised = [c \in Callers |-> "None"]
    /\ cache_index = <<>>
    /\ cache_added = <<>>
    /\ current_work_id = None
    /\ jobs = <<>>
    /\ published = <<>>

NextConsumer ==
    \/ Connect
    \/ Backoff
    \/ ProcessMessage
    \/ ConnectionLost
    \/ Acknowledge
    \/ \E t \in 1..Len(threads) : HandlerJobId(t)
    \/ \E t \in 1..Len(threads) : HandlerWorkId(t)
    \/ \E t \in 1..Len(threads) : HandlerProgress(t)
    \/ \E t \in 1..Len(threads) : HandlerCallback(t)
    \/ \E t \in 1..Len(threads) : HandlerComplete(t)
    \/ \E t \in 1..Len(threads) : HandlerError(t)

SpecConsumer == InitConsumer /\ [][NextConsumer]_vars

(***************************************************************************)
(* SpecInterrupt: the consumer with a termination signal.  The worker      *)
(* threads are scheduled and the calls they make return or raise.          *)
(***************************************************************************)
NextInterrupt ==
    \/ NextConsumer
    \/ Interrupt

HandlerNext ==
    \E t \in 1..Len(threads) :
        \/ HandlerJobId(t)
        \/ HandlerWorkId(t)
        \/ HandlerProgress(t)
        \/ HandlerCallback(t)
        \/ HandlerComplete(t)
        \/ HandlerError(t)

SpecInterrupt == InitConsumer /\ [][NextInterrupt]_vars /\ WF_vars(HandlerNext)

(***************************************************************************)
(* SpecWork: the consumer, and one send_stix2_bundle of a document of two  *)
(* entities made at any moment, by the callback of a handler or by the     *)
(* main path of the connector.                                             *)
(***************************************************************************)
InitWork ==
    /\ \E n \in 0..MaxMessages : \E payloads \in [1..n -> Payloads] :
          messages = [m \in 1..n |->
                         [payload |-> payloads[m], state |-> "ready", received |-> 0]]
    /\ lq = "connect"
    /\ delivery = None
    /\ threads = <<>>
    /\ updates = EmptyBag
    /\ acks = <<>>
    /\ connections = 0
    /\ PingNotStarted
    /\ input = [c \in Callers |->
                  [kind |-> "ok",
                   objects |-> IF c = 1
                               THEN <<Entity(1, None, <<>>), Entity(2, None, <<>>)>>
                               ELSE <<>>]]
    /\ \E m \in {"send_split", "send_nosplit"} :
          mode = [c \in Callers |-> IF c = 1 THEN m ELSE "split"]
    /\ pc = [c \in Callers |-> IF c = 1 THEN "call" ELSE "idle"]
    /\ i = [c \in Callers |-> 1]
    /\ bundles = [c \in Callers |-> <<>>]
    /\ raised = [c \in Callers |-> "None"]
    /\ cache_index = <<>>
    /\ cache_added = <<>>
    /\ current_work_id = None
    /\ jobs = <<>>
    /\ published = <<>>

NextWork ==
    \/ NextConsumer
    \/ NextSend

SpecWork == InitWork /\ [][NextWork]_vars

\* The consumer thread polls thread.is_alive() once a second (lines 85-86) and
\* then runs on to basic_ack: when the thread has ended it is not held back.
SpecConsumerFair == SpecConsumer /\ WF_vars(Acknowledge)

(***************************************************************************)
(* PingAlive.ping, one step per statement that reads or writes shared      *)
(* state or can raise, and set_state called from a handler or the main     *)
(* path.                                                                   *)
(***************************************************************************)
PingLocals(get, res, remote, fail, at) ==
    /\ initial_state' = get
    /\ result' = res
    /\ remote_state' = remote
    /\ failed' = fail
    /\ ping_pc' = at

NotPing ==
    /\ UNCHANGED <<input, mode, pc, i, bundles, raised, cache_index, cache_added,
                   current_work_id, jobs, published>>
    /\ UNCHANGED consumer_vars

\* What api.connector.ping can return as result["connector_state"] when the
\* state sent is sent: its text (the API stored it), the text of another
\* state (a remote reset), the empty text, None, or a text that is no JSON.
Answers(sent) == {dumps(sent)} \cup {dumps(d) : d \in Dicts} \cup {EmptyText, NoState, Garbage}

\* line 141
PingGetState ==
    /\ ping_pc = "get_state"
    /\ PingLocals(get_state(connector_state), result, remote_state, FALSE, "ping")
    /\ UNCHANGED <<connector_state, in_error>>
    /\ NotPing

\* line 142: the call raises or returns.
PingApi ==
    /\ ping_pc = "ping"
    /\ \/ PingLocals(initial_state, result, remote_state, TRUE, "except")
       \/ \E answer \in Answers(initial_state) :
             PingLocals(initial_state, answer, remote_state, FALSE, "decode")
    /\ UNCHANGED <<connector_state, in_error>>
    /\ NotPing

\* lines 143-147: len(None) raises TypeError, json.loads raises on a text
\* that is no JSON, the empty text stands for None.
PingDecode ==
    /\ ping_pc = "decode"
    /\ IF ~IsStr(result) THEN PingLocals(initial_state, result, remote_state, TRUE, "except")
       ELSE IF result = EmptyText
            THEN PingLocals(initial_state, result, NoState, FALSE, "compare")
       ELSE IF LoadsRaises(result)
            THEN PingLocals(initial_state, result, remote_state, TRUE, "except")
       ELSE PingLocals(initial_state, result, loads(result), FALSE, "compare")
    /\ UNCHANGED <<connector_state, in_error>>
    /\ NotPing

\* Adopting the remote state whenever it differs from the current local one.
PingCompareCurrent ==
    /\ ping_pc = "compare"
    /\ IF get_state(connector_state) # remote_state
       THEN /\ set_state(result)
            /\ PingLocals(initial_state, result, remote_state, FALSE, "log")
       ELSE /\ UNCHANGED connector_state
            /\ PingLocals(initial_state, result, remote_state, FALSE, "clear")
    /\ UNCHANGED in_error
    /\ NotPing

\* lines 148-149: set_state is given the text result["connector_state"].
PingCompare ==
    /\ ping_pc = "compare"
    /\ IF initial_state # remote_state
       THEN /\ set_state(result)
            /\ PingLocals(initial_state, result, remote_state, FALSE, "log")
       ELSE /\ UNCHANGED connector_state
            /\ PingLocals(initial_state, result, remote_state, FALSE, "clear")
    /\ UNCHANGED in_error
    /\ NotPing

\* lines 150-154: the text logged is a str + self.get_state() + a str, which
\* raises TypeError when get_state() returns no text.
PingLog ==
    /\ ping_pc = "log"
    /\ IF IsStr(get_state(connector_state))
       THEN PingLocals(initial_state, result, remote_state, FALSE, "clear")
       ELSE PingLocals(initial_state, result, remote_state, TRUE, "except")
    /\ UNCHANGED <<connector_state, in_error>>
    /\ NotPing

\* A tick that ends without touching the flag.
PingClearNothing ==
    /\ ping_pc = "clear"
    /\ PingLocals(initial_state, result, remote_state, failed, "sleep")
    /\ UNCHANGED <<connector_state, in_error>>
    /\ NotPing

\* lines 155-157
PingClear ==
    /\ ping_pc = "clear"
    /\ in_error' = FALSE
    /\ PingLocals(initial_state, result, remote_state, failed, "sleep")
    /\ UNCHANGED connector_state
    /\ NotPing

\* lines 158-160
PingExcept ==
    /\ ping_pc = "except"
    /\ in_error' = TRUE
    /\ PingLocals(initial_state, result, remote_state, failed, "sleep")
    /\ UNCHANGED connector_state
    /\ NotPing

\* line 161: time.sleep(40), and the loop starts its next tick.
PingSleep ==
    /\ ping_pc = "sleep"
    /\ PingLocals(initial_state, result, remote_state, failed, "get_state")
    /\ UNCHANGED <<connector_state, in_error>>
    /\ NotPing

\* helper.set_state(S) called by the handler or the main path.
SetState ==
    /\ \E S \in Dicts : set_state(S)
    /\ UNCHANGED <<in_error, ping_pc, initial_state, result, remote_state, failed>>
    /\ NotPing

(***************************************************************************)
(* SpecPing: the heartbeat thread of a helper whose state is also set by   *)
(* the connector.                                                          *)
(***************************************************************************)
CallsIdle ==
    /\ input = [c \in Callers |-> [kind |-> "ok", objects |-> <<>>]]
    /\ mode = [c \in Callers |-> "split"]
    /\ pc = [c \in Callers |-> "idle"]
    /\ i = [c \in Callers |-> 1]
    /\ bundles = [c \in Callers |-> <<>>]
    /\ raised = [c \in Callers |-> "None"]
    /\ cache_index = <<>>
    /\ cache_added = <<>>
    /\ current_work_id = None
    /\ jobs = <<>>
    /\ published = <<>>

\* line 224: the state of registration is None or a text of the API.
InitPing ==
    /\ connector_state \in {NoState, EmptyText} \cup {dumps(d) : d \in Dicts}
    /\ in_error = FALSE
    /\ ping_pc = "get_state"
    /\ initial_state = NoState
    /\ result = NoState
    /\ remote_state = NoState
    /\ failed = FALSE
    /\ CallsIdle
    /\ ConsumerNotStarted

PingTick ==
    \/ PingGetState
    \/ PingApi
    \/ PingDecode
    \/ PingCompare
    \/ PingLog
    \/ PingClear
    \/ PingExcept
    \/ PingSleep

NextPing ==
    \/ PingGetState
    \/ PingApi
    \/ PingDecode
    \/ PingCompare
    \/ PingLog
    \/ PingClear
    \/ PingExcept
    \/ PingSleep
    \/ SetState

SpecPing == InitPing /\ [][NextPing]_vars

\* The heartbeat thread is scheduled, the API call returns or raises, and
\* time.sleep(40) returns.
SpecPingFair == SpecPing /\ WF_vars(PingTick)

(***************************************************************************)
(* What call 1 was given and what it has emitted.                          *)
(***************************************************************************)
Objects == input[1].objects
DocIds == {Objects[k].id : k \in 1..Len(Objects)}
\* The partitions emitted so far, each the list of its objects.
Parts == [k \in 1..Len(bundles[1]) |-> bundles[1][k].objects]
PartIds(k) == {Parts[k][n].id : n \in 1..Len(Parts[k])}
Root(k) == Parts[k][1]
\* split_stix2_bundle has returned its list of bundles.
Partitioned == mode[1] = "split" /\ pc[1] = "returned"
\* The ids an object names as a container: a report's object_refs, a
\* relationship's source_ref and target_ref.
NamedBy(x) ==
    IF x.type = "report" THEN {x.object_refs[n] : n \in 1..Len(x.object_refs)}
    ELSE IF x.type = "relationship" THEN {x.source_ref, x.target_ref}
    ELSE {}

\* C1: in a partitioned document, every indexed object that a report or a
\* relationship of the k-th partition names is in the k-th partition or in an
\* earlier one, also when the report or relationship is there as a dependency.
C1_DependenciesShipped ==
    Partitioned =>
        \A k \in 1..Len(Parts) : \A n \in 1..Len(Parts[k]) :
            \A ref \in NamedBy(Parts[k][n]) \cap DocIds :
                \E j \in 1..k : ref \in PartIds(j)

\* C2: in a partitioned document, no object id is in more than one of the
\* emitted partitions.
C2_NoObjectShippedTwice ==
    Partitioned =>
    \A j \in 1..Len(Parts) : \A k \in 1..Len(Parts) :
        j # k => PartIds(j) \cap PartIds(k) = {}

\* C3: in a partitioned document, the ids of the emitted partitions are
\* exactly the ids of the document's objects.
C3_NoObjectLost ==
    Partitioned => UNION {PartIds(k) : k \in 1..Len(Parts)} = DocIds

\* C3 witness: a document of three objects was partitioned into fewer
\* partitions than objects, so some object was shipped as a dependency only.
C3_Witness ==
    Partitioned /\ Len(Objects) = MaxObjects /\ Len(Parts) = 2
    /\ \E k \in 1..Len(Objects) : Objects[k].type = "relationship"

\* C5: in a partitioned document, every emitted partition that contains a
\* report contains every object the report names in object_refs.
C5_MembersShipWithReport ==
    Partitioned =>
    \A k \in 1..Len(Parts) : \A n \in 1..Len(Parts[k]) :
        Parts[k][n].type = "report" => NamedBy(Parts[k][n]) \subseteq PartIds(k)

\* The position in items of the first object with the given id.
FirstIndex(items, id) ==
    CHOOSE n \in 1..Len(items) : items[n].id = id /\ \A m \in 1..(n - 1) : items[m].id # id

\* final_items is items with, of each id, the first object only, in the order
\* in which the ids are first seen.
KeepsFirstOccurrences(items, final_items) ==
    /\ {items[n].id : n \in 1..Len(items)} = {final_items[n].id : n \in 1..Len(final_items)}
    /\ \A a \in 1..Len(final_items) :
          /\ final_items[a] = items[FirstIndex(items, final_items[a].id)]
          /\ \A b \in (a + 1)..Len(final_items) :
                FirstIndex(items, final_items[a].id) < FirstIndex(items, final_items[b].id)

\* The index is complete: the loop of line 411 is over and the loops that
\* collect and deduplicate are about to start.
IndexComplete == pc[1] = "reports" /\ i[1] = 1

\* The lists the three loops hand to stix2_deduplicate_objects for an object.
CollectedLists(item) ==
    {stix2_get_relationship_objects(cache_index, item),
     stix2_get_entity_objects(cache_index, item)}
    \cup (IF item.type = "report" /\ ~ReportLookupFails(cache_index, item)
          THEN {stix2_get_report_objects(cache_index, item)} ELSE {})

\* C4: no id is twice in an emitted partition, and stix2_deduplicate_objects
\* keeps of each id of a collected list the first object, in first-seen order.
C4_NoDuplicateInPartition ==
    /\ \A k \in 1..Len(Parts) : \A a \in 1..Len(Parts[k]) : \A b \in 1..Len(Parts[k]) :
          a # b => Parts[k][a].id # Parts[k][b].id
    /\ IndexComplete =>
          \A n \in 1..Len(Objects) : \A items \in CollectedLists(Objects[n]) :
              KeepsFirstOccurrences(items, stix2_deduplicate_objects(items))

\* C4 witness: a partition was emitted for a relationship whose collected list
\* named an object twice, and holds that object once.
C4_Witness ==
    /\ Partitioned
    /\ \E k \in 1..Len(Parts) :
          /\ Root(k).type = "relationship"
          /\ Len(Parts[k]) >= 2
          /\ Len(stix2_get_relationship_objects(cache_index, Root(k))) > Len(Parts[k])

(***************************************************************************)
(* The order of the partitions, stated on the ids of the document.         *)
(***************************************************************************)
ObjectOf(id) == CHOOSE o \in {Objects[n] : n \in 1..Len(Objects)} : o.id = id
PositionOf(o) == CHOOSE n \in 1..Len(Objects) : Objects[n] = o
\* The loop in which an object can be a root: reports, relationships, others.
Phase(o) == IF o.type = "report" THEN 1 ELSE IF o.type = "relationship" THEN 2 ELSE 3
\* The turn of a comes before the turn of b.
TurnBefore(a, b) ==
    \/ Phase(a) < Phase(b)
    \/ Phase(a) = Phase(b) /\ PositionOf(a) < PositionOf(b)
IsRoot(o) == \E k \in 1..Len(Parts) : Root(k) = o
\* o is in a partition whose root had its turn before o.
ShippedBeforeTurn(o) ==
    \E k \in 1..Len(Parts) : o.id \in PartIds(k) /\ TurnBefore(Root(k), o)

RECURSIVE FirstSeen(_)
FirstSeen(ids) ==
    IF ids = <<>> THEN <<>>
    ELSE LET front == SubSeq(ids, 1, Len(ids) - 1)
             last == ids[Len(ids)]
         IN  IF \E n \in 1..Len(front) : front[n] = last
             THEN FirstSeen(front) ELSE Append(FirstSeen(front), last)

InDocument(ids) == SelectSeq(ids, LAMBDA id : id \in DocIds)
\* created_by, then the markings.
EmbeddedIds(o) == InDocument(<<o.created_by_ref>> \o o.object_marking_refs)
\* For a relationship: source, target, created_by, markings.
DependencyIds(o) ==
    IF o.type = "relationship"
    THEN InDocument(<<o.source_ref, o.target_ref>>) \o EmbeddedIds(o)
    ELSE EmbeddedIds(o)
RECURSIVE MemberDependencyIds(_)
MemberDependencyIds(refs) ==
    IF refs = <<>> THEN <<>>
    ELSE DependencyIds(ObjectOf(refs[1])) \o MemberDependencyIds(Tail(refs))
\* The ids of the partition of a root, in order.
ExpectedIds(o) ==
    IF o.type = "report"
    THEN FirstSeen(<<o.id>> \o o.object_refs \o EmbeddedIds(o)
                   \o MemberDependencyIds(o.object_refs))
    ELSE FirstSeen(<<o.id>> \o DependencyIds(o))

PartitionIds == [k \in 1..Len(Parts) |-> IdsOf(Parts[k])]

\* [report r1{object_refs:[e1]}, e1, e2] and [rel{e1,e2}, e1, e2]
ScenarioReport ==
    <<Report(1, <<2>>, None, <<>>), Entity(2, None, <<>>), Entity(3, None, <<>>)>>
ScenarioRelationship ==
    <<Relationship(1, 2, 3, None, <<>>), Entity(2, None, <<>>), Entity(3, None, <<>>)>>

\* C6: the partitions of a partitioned document come in the order reports,
\* relationships, other objects, each in document order; every report is a
\* root, a relationship or other object is a root exactly if no partition of
\* an earlier turn holds it; a partition is its root followed by its
\* dependencies in collection order; the two scenarios give [r1, e1], [e2] and
\* [rel, e1, e2].
C6_PartitionOrder ==
    Partitioned =>
        /\ \A j \in 1..Len(Parts) : \A k \in (j + 1)..Len(Parts) :
              TurnBefore(Root(j), Root(k))
        /\ \A n \in 1..Len(Objects) :
              IsRoot(Objects[n]) <=>
                  (Objects[n].type = "report" \/ ~ShippedBeforeTurn(Objects[n]))
        /\ \A k \in 1..Len(Parts) : PartitionIds[k] = ExpectedIds(Root(k))
        /\ Objects = ScenarioReport => PartitionIds = <<<<1, 2>>, <<3>>>>
        /\ Objects = ScenarioRelationship => PartitionIds = <<<<1, 2, 3>>>>

\* C6 witness: the report scenario was partitioned.
C6_Witness == Partitioned /\ Objects = ScenarioReport /\ Len(Parts) = 2

\* C7: a relationship or other object that an earlier partition holds is not
\* the root of a later one; the partitions of a partitioned document are as
\* many as its reports and its other objects not shipped before their turn;
\* after the reset at the start of a run self.cache_added only grows.
C7_RootsNotShippedBefore ==
    /\ \A k \in 1..Len(Parts) : \A j \in 1..(k - 1) :
          Root(k).type # "report" => Root(k).id \notin PartIds(j)
    /\ Partitioned =>
          Len(Parts) = Cardinality({n \in 1..Len(Objects) :
                          \/ Objects[n].type = "report"
                          \/ ~ShippedBeforeTurn(Objects[n])})
C7_ShippedSetGrows ==
    pc[1] # "call" =>
        /\ Len(cache_added') >= Len(cache_added)
        /\ SubSeq(cache_added', 1, Len(cache_added)) = cache_added
C7_ShippedSetPreventsReemission ==
    [](C7_RootsNotShippedBefore) /\ [][C7_ShippedSetGrows]_vars

\* C7 witness: a relationship was shipped with a report and, being shipped, was
\* not made the root of a partition of its own.
C7_Witness ==
    /\ Partitioned
    /\ \E n \in 1..Len(Objects) :
          /\ Objects[n].type = "relationship"
          /\ ~IsRoot(Objects[n])
          /\ \E k \in 1..Len(Parts) : Root(k).type = "report" /\ Objects[n].id \in PartIds(k)

(***************************************************************************)
(* Errors of the producer path (SpecSend).                                 *)
(***************************************************************************)
Finished == pc[1] \in {"returned", "raised"}
EmptyDocument == input[1].kind = "ok" /\ Objects = <<>>
Malformed == input[1].kind \in {"invalid_json", "no_objects"}
EmptyBundle == "ValueError: Nothing to import"
MalformedDocument == "Exception: File data is not a valid JSON"

C9_MalformedDocumentRaised ==
    Malformed /\ mode[1] # "send_nosplit" =>
        /\ pc[1] \in {"call", "index", "raised"}
        /\ pc[1] = "raised" => raised[1] = MalformedDocument
        /\ bundles[1] = <<>>
        /\ published = <<>>

(***************************************************************************)
(* Acknowledgment (SpecConsumer).                                          *)
(***************************************************************************)
\* update_job was called with a terminal status by thread t.
TerminalAttempted(t) ==
    \E u \in BagToSet(updates) : u.thread = t /\ u.status \in {"complete", "error"}

\* C10: a delivery is acknowledged only when the worker thread started for it
\* is not alive any more and has attempted its terminal status update.
C10_AckAfterHandlerTerminated ==
    \A n \in 1..Len(acks) :
        ~Alive(acks[n].thread) /\ TerminalAttempted(acks[n].thread)

\* C10, the part that holds: no delivery is acknowledged while its worker
\* thread is alive.
C10_AckAfterThreadEnded ==
    \A n \in 1..Len(acks) : ~Alive(acks[n].thread)

\* The worker threads a run can start.
ThreadIds == 1..(MaxMessages + MaxConnections)

AcksOfThread(t) == {n \in 1..Len(acks) : acks[n].thread = t}
AcksOfMessage(m) == {n \in 1..Len(acks) : acks[n].msg = m}

\* The consumer waits for thread t, and the handler execution of t has reached
\* a terminal state, whatever its outcome.
HandlerTerminated(t) ==
    /\ lq = "waiting"
    /\ t = Len(threads)
    /\ ~Alive(t)

\* No delivery and no message is acknowledged twice, and after an
\* acknowledgment the consumer is consuming again or further.
C11_SingleAcknowledgment ==
    /\ \A t \in 1..Len(threads) : Cardinality(AcksOfThread(t)) <= 1
    /\ \A m \in DOMAIN messages :
          /\ Cardinality(AcksOfMessage(m)) <= 1
          /\ Cardinality(AcksOfMessage(m)) = 1 <=> messages[m].state = "acked"
    /\ lq \in {"connect", "consuming", "waiting", "backoff"}

\* C11: once the handler execution of a dispatched delivery has reached a
\* terminal state (returned, raised, status report failed, thread ended on an
\* error), the delivery is acknowledged, exactly once, unless basic_ack itself
\* fails on a closed channel and run backs off; the consumer stays in its loop.
C11_TerminalThenAcknowledged ==
    /\ [](C11_SingleAcknowledgment)
    /\ \A t \in ThreadIds :
          HandlerTerminated(t) ~> (Cardinality(AcksOfThread(t)) = 1 \/ lq = "backoff")

\* A handler that raised and whose error report failed too has been
\* acknowledged, and the consumer has gone on to the next message.
C11_Witness ==
    /\ Len(acks) = 1
    /\ BagIn([thread |-> acks[1].thread, status |-> "error", ok |-> FALSE], updates)
    /\ lq = "waiting"
    /\ Len(threads) > acks[1].thread
    /\ threads[Len(threads)].msg # acks[1].msg

(***************************************************************************)
(* A handler that raises (SpecConsumerFair).                               *)
(***************************************************************************)
\* The number of update_job calls thread t made with the status.
UpdatesOf(t, status) ==
    CopiesIn([thread |-> t, status |-> status, ok |-> TRUE], updates)
        + CopiesIn([thread |-> t, status |-> status, ok |-> FALSE], updates)

\* The callback of thread t raised and the handler execution has ended.
HandlerRaised(t) ==
    /\ t <= Len(threads)
    /\ threads[t].callback = "raised"
    /\ ~Alive(t)

C12_ErrorReportedOnce ==
    \A t \in 1..Len(threads) :
        /\ HandlerRaised(t) => UpdatesOf(t, "error") = 1
        /\ threads[t].callback = "raised" => UpdatesOf(t, "complete") = 0
        /\ UpdatesOf(t, "complete") > 0 => threads[t].callback = "returned"
        /\ Cardinality(AcksOfThread(t)) <= 1

\* The steps of the handler leave the consumer's loop, the queue and the
\* acknowledgments alone.
C12_FaultNotPropagated ==
    threads' # threads /\ Len(threads') = Len(threads)
        => UNCHANGED <<lq, messages, delivery, acks, connections>>

\* C12: for a handler execution whose callback raised, update_job is called
\* exactly once with "error" and never with "complete", the fault does not
\* reach the consumer's loop, and the delivery is acknowledged exactly once
\* (unless basic_ack fails on a closed channel); "complete" is sent only
\* after the callback returned.
C12_HandlerFaultReported ==
    /\ [](C12_ErrorReportedOnce)
    /\ [][C12_FaultNotPropagated]_vars
    /\ \A t \in ThreadIds :
          (HandlerRaised(t) /\ HandlerTerminated(t))
              ~> (Cardinality(AcksOfThread(t)) = 1 \/ lq = "backoff")

\* A delivery whose callback raised has been reported as an error and
\* acknowledged.
C12_Witness ==
    \E t \in 1..Len(threads) :
        /\ HandlerRaised(t)
        /\ BagIn([thread |-> t, status |-> "error", ok |-> TRUE], updates)
        /\ Cardinality(AcksOfThread(t)) = 1
        /\ messages[threads[t].msg].state = "acked"

(***************************************************************************)
(* Handler executions in flight (SpecConsumer).                            *)
(***************************************************************************)
\* C13: at most one worker thread running the handler is alive at any time,
\* also after a connection loss, a reconnection and a redelivery.
C13_AtMostOneHandlerInFlight ==
    Cardinality({t \in 1..Len(threads) : Alive(t)}) <= 1

(***************************************************************************)
(* Publish failures (SpecSend).                                            *)
(***************************************************************************)
\* The errors split_stix2_bundle and send_stix2_bundle raise before any
\* publish.
PartitioningErrors == {MalformedDocument, "KeyError", EmptyBundle}

\* C14: an unroutable or negatively acknowledged publish is retried with the
\* same partition until it succeeds, so the only failure of a publish that
\* ends a send is another error of basic_publish, and a send that returned
\* has published every partition once, in order.
C14_UnroutableRetried ==
    /\ pc[1] = "raised" /\ raised[1] \notin PartitioningErrors => raised[1] = "AMQPError"
    /\ pc[1] = "returned" /\ mode[1] = "send_split" =>
          published = [k \in 1..Len(bundles[1]) |->
                          [job_id |-> None, content |-> b64encode(bundles[1][k])]]

(***************************************************************************)
(* The heartbeat and the connector state (SpecPing).                       *)
(***************************************************************************)
\* The step of lines 148-149 of a tick whose remote state differs from the
\* state it read leaves get_state() equal to the remote state.
C15_Adopts ==
    ping_pc = "compare" /\ ping_pc' # "compare" /\ initial_state # remote_state
        => get_state(connector_state') = remote_state

\* C15: remote always wins: after the reconciliation of a tick in which the
\* remote state differs from the local one, get_state() returns the remote
\* state.
C15_RemoteAlwaysWins == [][C15_Adopts]_vars

\* The step of lines 148-149 writes the connector state only when the state
\* the API returned differs from the state the tick read and sent.
C16_Overwrites ==
    ping_pc = "compare" /\ ping_pc' # "compare" /\ connector_state' # connector_state
        => remote_state # initial_state

\* C16: a state set by set_state(S) between a tick's read of the local state
\* and its adoption step is overwritten by the tick only if the API returned
\* a state different from the one the tick sent.
C16_NoOverwriteWithoutReset == [][C16_Overwrites]_vars

\* set_state(S) was called after the tick read the state, the API returned
\* the state the tick sent, and the tick is at its adoption step.
C16_Witness ==
    /\ ping_pc = "compare"
    /\ connector_state \in {dumps(d) : d \in Dicts}
    /\ get_state(connector_state) # initial_state
    /\ remote_state = initial_state

(***************************************************************************)
(* Two concurrent calls (SpecConcurrent).                                  *)
(***************************************************************************)
\* The index lines 411-412 build of a document.
IndexOf(objects) ==
    [id \in {objects[k].id : k \in 1..Len(objects)} |->
        objects[CHOOSE k \in 1..Len(objects) :
                    /\ objects[k].id = id
                    /\ \A n \in (k + 1)..Len(objects) : objects[n].id # id]]

\* The three loops of lines 416-443 run by one call alone from item k of
\* loop phase on, with the ids added and the bundles appended so far.
RECURSIVE SplitFrom(_, _, _, _, _)
SplitFrom(objects, phase, k, added, out) ==
    IF phase > 3 THEN out
    ELSE IF k > Len(objects) THEN SplitFrom(objects, phase + 1, 1, added, out)
    ELSE LET item == objects[k]
             idx == IndexOf(objects)
             root == CASE phase = 1 -> item.type = "report"
                       [] phase = 2 -> item.type = "relationship" /\ item.id \notin added
                       [] OTHER -> item.type # "relationship" /\ item.id \notin added
             items_to_send ==
                 stix2_deduplicate_objects(
                     CASE phase = 1 -> stix2_get_report_objects(idx, item)
                       [] phase = 2 -> stix2_get_relationship_objects(idx, item)
                       [] OTHER -> stix2_get_entity_objects(idx, item))
         IN  IF root
             THEN SplitFrom(objects, phase, k + 1,
                            added \cup {items_to_send[n].id : n \in 1..Len(items_to_send)},
                            Append(out, stix2_create_bundle(items_to_send)))
             ELSE SplitFrom(objects, phase, k + 1, added, out)

\* What split_stix2_bundle returns for a document when it runs alone, and
\* whether it raises instead.
SplitAlone(objects) == SplitFrom(objects, 1, 1, {}, <<>>)
SplitAloneRaises(objects) ==
    \E k \in 1..Len(objects) :
        objects[k].type = "report" /\ ReportLookupFails(IndexOf(objects), objects[k])

\* One call alone returns what SplitAlone says.
SplitAloneIsSplit ==
    /\ Partitioned => bundles[1] = SplitAlone(Objects)
    /\ pc[1] = "raised" /\ input[1].kind = "ok" => SplitAloneRaises(Objects)

\* C17: each of two concurrent calls on the same helper returns the
\* partitions it returns when it runs alone.
C17_CallsConfined ==
    \A c \in Callers :
        /\ pc[c] = "returned" => bundles[c] = SplitAlone(input[c].objects)
        /\ pc[c] = "raised" => SplitAloneRaises(input[c].objects)

(***************************************************************************)
(* A payload that is no JSON (SpecConsumer).                               *)
(***************************************************************************)
\* C18: a message whose payload cannot be parsed is received and parsed at
\* most once, no handler is started for it, and it is not acknowledged away.
C18_MalformedNotRetried ==
    \A m \in DOMAIN messages :
        messages[m].payload = "invalid" =>
            /\ messages[m].received <= 1
            /\ \A t \in 1..Len(threads) : threads[t].msg # m
            /\ messages[m].state # "acked"

\* C18, the part that holds: no handler runs for such a message and it is
\* never acknowledged.
C18_MalformedNotHandled ==
    \A m \in DOMAIN messages :
        messages[m].payload = "invalid" =>
            /\ \A t \in 1..Len(threads) : threads[t].msg # m
            /\ messages[m].state # "acked"

(***************************************************************************)
(* References that are not in the document (SpecSend).                     *)
(***************************************************************************)
\* A report of the document names in object_refs an id no object has.
DanglingReport ==
    \E k \in 1..Len(Objects) :
        /\ Objects[k].type = "report"
        /\ \E n \in 1..Len(Objects[k].object_refs) : Objects[k].object_refs[n] \notin DocIds

\* C19: a document with a report that names a missing id in object_refs is
\* not partitioned at all: the call raises the lookup error, returns nothing
\* and publishes nothing, whatever else the document holds; any other
\* missing reference is no error.
C19_MissingMemberIsFatal ==
    input[1].kind = "ok" /\ mode[1] \in {"split", "send_split"} =>
        /\ DanglingReport =>
              /\ published = <<>>
              /\ pc[1] \notin {"send_check", "publish", "returned"}
              /\ pc[1] = "raised" => raised[1] = "KeyError"
        /\ ~DanglingReport => raised[1] # "KeyError"

\* A send has raised the lookup error for a document whose first report was
\* well formed and had its partition built before the failing one.
C19_Witness ==
    /\ mode[1] = "send_split"
    /\ DanglingReport
    /\ pc[1] = "raised"
    /\ raised[1] = "KeyError"
    /\ bundles[1] # <<>>
    /\ published = <<>>

(***************************************************************************)
(* The health flag of the heartbeat (SpecPingFair).                        *)
(***************************************************************************)
\* At the end of a tick in_error says whether the tick raised.
C20_FlagTracksTick == ping_pc = "sleep" => (in_error <=> failed)

\* C20: in_error is set by a tick that fails and cleared by the next tick
\* that succeeds, and the loop goes on after every tick, failed or not: a
\* tick that ended is followed by another, which ends in its turn.
C20_HeartbeatNeverStops ==
    /\ [](C20_FlagTracksTick)
    /\ (ping_pc = "sleep") ~> (ping_pc = "get_state")
    /\ (ping_pc = "get_state") ~> (ping_pc = "sleep")
    /\ (ping_pc = "except") ~> (ping_pc = "get_state" /\ in_error)

\* A tick that succeeded after a failed one is about to clear the flag.
C20_Witness == ping_pc = "clear" /\ in_error /\ ~failed

(***************************************************************************)
(* A termination signal (SpecInterrupt).                                   *)
(***************************************************************************)
\* A handler that was in flight at the signal and has ended has attempted
\* its terminal status.
C21_SignalledReported ==
    \A t \in 1..Len(threads) :
        threads[t].signalled /\ ~Alive(t) => TerminalAttempted(t)

\* After the signal the loop does not connect, dispatch or acknowledge.
C21_LoopEnded ==
    lq = "stopped" =>
        /\ lq' = "stopped"
        /\ Len(threads') = Len(threads)
        /\ UNCHANGED <<connections, acks, messages>>

\* C21: a handler in flight when the termination signal arrives runs to its
\* end and its terminal status is reported; the loop ends without
\* reconnecting and dispatches no further message.
C21_SignalSparesHandler ==
    /\ [](C21_SignalledReported)
    /\ [][C21_LoopEnded]_vars
    /\ \A t \in ThreadIds :
          (t <= Len(threads) /\ threads[t].signalled) ~> (t <= Len(threads) /\ ~Alive(t))

\* C21 for the messages whose body is a JSON object or array.
C21_ContainerReported ==
    \A t \in 1..Len(threads) :
        threads[t].signalled /\ ~Alive(t) /\ messages[threads[t].msg].payload # "scalar"
            => TerminalAttempted(t)

\* C21, the part that holds: the loop ends, every handler in flight at the
\* signal runs to its end, and reports its terminal status unless the body
\* of its message is no container.
C21_SignalSparesContainerHandler ==
    /\ [](C21_ContainerReported)
    /\ [][C21_LoopEnded]_vars
    /\ \A t \in ThreadIds :
          (t <= Len(threads) /\ threads[t].signalled) ~> (t <= Len(threads) /\ ~Alive(t))

(***************************************************************************)
(* The job of a published partition (SpecWork).                            *)
(***************************************************************************)
HandlerInFlight == \E t \in 1..Len(threads) : Alive(t)
CallbackRunning == {t \in 1..Len(threads) : threads[t].at = "callback"}

\* The step that publishes a partition: with no handler in flight it
\* registers no job and publishes job_id null; while the callback of a
\* handler runs it registers one job, against the work id of such a handler,
\* and publishes its id.
C22_PublishRegisters ==
    Len(published') = Len(published) + 1 =>
        LET message == published'[Len(published')]
        IN  /\ Len(jobs') <= Len(jobs) + 1
            /\ ~HandlerInFlight => jobs' = jobs /\ message.job_id = None
            /\ CallbackRunning # {} =>
                  /\ Len(jobs') = Len(jobs) + 1
                  /\ message.job_id = Len(jobs')
                  /\ \E t \in CallbackRunning : jobs'[Len(jobs')] = threads[t].msg

\* C22: a job is registered for a published partition exactly once and only
\* if a work item is active: never when no message is being handled, and
\* against the handler's work id while a handler is in flight.
C22_JobOnlyForActiveWork == [][C22_PublishRegisters]_vars

\* C22, the part that holds: a published partition has one job exactly if
\* self.current_work_id is set, registered against it.
C22_PublishFollowsWorkId ==
    Len(published') = Len(published) + 1 =>
        LET message == published'[Len(published')]
        IN  IF current_work_id = None
            THEN jobs' = jobs /\ message.job_id = None
            ELSE /\ jobs' = Append(jobs, current_work_id)
                 /\ message.job_id = Len(jobs')

C22_JobFollowsWorkId == [][C22_PublishFollowsWorkId]_vars

====
